---- MODULE Spec2Model ----
(***************************************************************************)
(* Model of the lensloft photo-sharing application (src/app.py).           *)
(*                                                                         *)
(* The relational store is the tables users, photos, likes, saves and      *)
(* comments; blobs is the set of names written to the upload sink.         *)
(* Requests are served by workers (wsgi.py hands the app to a multi-worker *)
(* server).  A handler that touches the outside world once (register,      *)
(* comment: one INSERT and its COMMIT) is one action.  A handler that      *)
(* touches it twice is one action per touch, with the worker's position in *)
(* req: like and save read the pair's row and later write; the upload      *)
(* writes the blob and later commits the Photo row.  The handler holds no  *)
(* lock in between, so steps of other workers may run there.               *)
(*                                                                         *)
(* Tables with an autoincrement key whose rows are only appended (users,   *)
(* photos, comments) are sequences, the row id being the index.  Like and  *)
(* Save rows are deleted by their id, so those tables are sets of rows     *)
(* (id, user_id, photo_id).                                                *)
(*                                                                         *)
(* last is the record of the last step that ended a request or wrote to    *)
(* the store or the sink; repeat tells whether that step answered a toggle *)
(* that followed an answered toggle of the same kind for the same pair.    *)
(*                                                                         *)
(* The store is the one app.py configures by default (SQLite, lines        *)
(* 53-55): nothing in app.py turns foreign-key enforcement on.             *)
(***************************************************************************)
EXTENDS Integers, Sequences, FiniteSets, TLC

VARIABLES users, photos, blobs, likes, saves, comments, last, repeat,
          req, img, tags

vars == <<users, photos, blobs, likes, saves, comments, last, repeat,
          req, img, tags>>

store == <<users, photos, blobs, likes, saves, comments>>

(* ---------------------------------------------------------------------- *)
(* Bounds of the model                                                     *)
(* ---------------------------------------------------------------------- *)
MaxUsers == 2
MaxPhotos == 2
MaxComments == 2
MaxRowId == 2

\* photo ids a client may put in the URL of /like, /save and /comment: the
\* id of the photo in the store, and one that no photo has
PhotoIds == {1, 2}

NoRequest == [op |-> "none"]

(* ---------------------------------------------------------------------- *)
(* Like / Save toggle (app.py 204-228)                                     *)
(* ---------------------------------------------------------------------- *)
\* what .first() returns when no row matches (None)
NoRow == [id |-> 0, user_id |-> 0, photo_id |-> 0]

\* filter_by(user_id=..., photo_id=...)
Matching(rows, u, p) == {r \in rows : r.user_id = u /\ r.photo_id = p}

\* Like.query.filter_by(user_id=..., photo_id=...).first(): the query has no
\* ORDER BY and the store scans the table by row id, so of several matching
\* rows the one with the least id is returned
FindRow(rows, u, p) ==
    LET found == Matching(rows, u, p)
    IN IF found = {} THEN NoRow
       ELSE CHOOSE r \in found : \A q \in found : r.id <= q.id

\* the id the store gives a new row: one more than the greatest id in the
\* table (an integer primary key on SQLite)
NextId(rows) ==
    IF rows = {} THEN 1
    ELSE 1 + (CHOOSE n \in {r.id : r \in rows} : \A r \in rows : r.id <= n)

\* db.session.add(Like(user_id=..., photo_id=...))
AddRow(rows, u, p) ==
    rows \cup {[id |-> NextId(rows), user_id |-> u, photo_id |-> p]}

\* DeleteRow as a DELETE by photo instead of by id: every row of the photo
\* goes
DeleteRowsOfPhoto(rows, obj) == {r \in rows : r.photo_id # obj.photo_id}

\* DeleteRow that never reaches the store
DeleteNothing(rows, obj) == rows

\* db.session.delete(obj): DELETE ... WHERE id = obj.id, which removes
\* nothing when no row has that id any more
DeleteRow(rows, obj) == {r \in rows : r.id # obj.id}

\* ToggleWrite that inserts whatever the lookup returned
ToggleAlwaysAdds(rows, u, p, obj) == AddRow(rows, u, p)

\* ToggleWrite done as one conditional statement on the store (the lookup
\* is repeated at the write)
ToggleAtomic(rows, u, p, obj) ==
    IF FindRow(rows, u, p) # NoRow
    THEN DeleteRow(rows, FindRow(rows, u, p))
    ELSE AddRow(rows, u, p)

\* the if/else of the handler, given the row the lookup returned
ToggleWrite(rows, u, p, obj) ==
    IF obj # NoRow THEN DeleteRow(rows, obj) ELSE AddRow(rows, u, p)

\* the boolean the handler reports
ToggleReply(obj) == obj = NoRow

\* row ids are capped: an insert that would pass MaxRowId is not taken
WithinIds(rows, obj) == obj # NoRow \/ NextId(rows) <= MaxRowId

\* the number of rows a pair has
Count(rows, u, p) == Cardinality(Matching(rows, u, p))

UserIds == 1..Len(users)

\* the user who registered first
FirstUser == UserIds \cap {1}

\* db.session.commit() either makes the handler's pending write durable or
\* raises (store unavailable), in which case the request ends with an
\* unhandled error and the pending write is lost
Commit(db_ok, before, after) == IF db_ok THEN after ELSE before

SameRequest(a, b) ==
    /\ a.op \in {"like", "save"}
    /\ a.op = b.op
    /\ a.done /\ b.done
    /\ a.user = b.user
    /\ a.photo_id = b.photo_id

\* what is known of a toggle request once it has ended: its inputs, whether
\* it ran to its response (done), the boolean of the JSON response (active),
\* the number of rows the pair had when the request wrote (before) and,
\* when it follows an answered request of the same kind for the same pair,
\* the number of rows the pair had when that one wrote (earlier, else -1)
ToggleRecord(op, u, p, rows, obj, db_ok) ==
    [op |-> op, user |-> u, photo_id |-> p, done |-> db_ok,
     active |-> ToggleReply(obj),
     before |-> Count(rows, u, p),
     earlier |-> IF /\ db_ok
                    /\ last.op = op
                    /\ last.done
                    /\ last.user = u
                    /\ last.photo_id = p
                 THEN last.before ELSE -1]

\* A worker runs the handler's statements in order; the lookup and the
\* write-and-commit are separate statements against the shared store, so
\* another worker's statements may run in between.
Workers == {1, 2}

Idle == [pc |-> "idle", op |-> "none", user |-> 0, photo_id |-> 0,
         obj |-> NoRow, active |-> FALSE]

Table(op) == IF op = "like" THEN likes ELSE saves

\* the request reaches the handler
begin(w, op, u, p) ==
    /\ req[w].pc = "idle"
    /\ req' = [req EXCEPT ![w] = [pc |-> "lookup", op |-> op, user |-> u,
                                  photo_id |-> p, obj |-> NoRow,
                                  active |-> FALSE]]
    /\ UNCHANGED <<store, last, repeat, img, tags>>

\* obj = Like.query.filter_by(...).first()
lookup(w) ==
    /\ req[w].pc = "lookup"
    /\ req' = [req EXCEPT ![w].pc = "write",
                          ![w].obj = FindRow(Table(req[w].op), req[w].user,
                                             req[w].photo_id)]
    /\ UNCHANGED <<store, last, repeat, img, tags>>

\* the if/else on the row this worker looked up, db.session.commit() and
\* the response; a commit that raises ends the request without one
write(w, db_ok) ==
    LET r == req[w]
        after == Commit(db_ok, Table(r.op),
                        ToggleWrite(Table(r.op), r.user, r.photo_id, r.obj))
        rec == ToggleRecord(r.op, r.user, r.photo_id, Table(r.op), r.obj,
                            db_ok)
    IN /\ r.pc = "write"
       /\ WithinIds(Table(r.op), r.obj)
       /\ likes' = IF r.op = "like" THEN after ELSE likes
       /\ saves' = IF r.op = "save" THEN after ELSE saves
       /\ req' = [req EXCEPT ![w].pc = IF db_ok THEN "done" ELSE "failed",
                             ![w].active = ToggleReply(r.obj)]
       /\ last' = rec
       /\ repeat' = SameRequest(last, rec)
       /\ UNCHANGED <<users, photos, blobs, comments, img, tags>>

\* the request is over: the worker is free for the next one
release(w) ==
    /\ req[w].pc \in {"done", "failed"}
    /\ req' = [req EXCEPT ![w] = Idle]
    /\ UNCHANGED <<store, last, repeat, img, tags>>

\* no request is being served
NoneInFlight == \A w \in Workers : req[w].pc = "idle"

Begin ==
    \E w \in Workers, op \in {"like", "save"}, u \in UserIds, p \in PhotoIds :
        begin(w, op, u, p)
\* a request that arrives when no other is being served (the first worker
\* takes it)
BeginAlone ==
    \E w \in {1}, op \in {"like", "save"}, u \in UserIds, p \in PhotoIds :
        NoneInFlight /\ begin(w, op, u, p)
Lookup == \E w \in Workers : lookup(w)
Write == \E w \in Workers, db_ok \in BOOLEAN : write(w, db_ok)
Release == \E w \in Workers : release(w)

(* ---------------------------------------------------------------------- *)
(* Image Characterizer (app.py 87-111)                                     *)
(* ---------------------------------------------------------------------- *)
\* An image is represented by what analyze_image reads of it after the
\* conversion to RGB: its size, the mean of its luminance channel in tenths
\* (ImageStat's mean is a real number in 0..255) and the channels of its
\* one-pixel downsample.
HdPixels == 1000000
BrightAbove == 150
DarkBelow == 80

\* Strings that hold characters outside ASCII are the sequences of their
\* Unicode code points.
Separator == <<32, 124, 32>>                                    \* " | "
TagHD == <<72, 68>>                                             \* "HD"
TagSD == <<83, 68>>                                             \* "SD"
TagBright == <<66, 114, 105, 103, 104, 116, 32, 9728, 65039>>   \* "Bright " sun
TagDark == <<68, 97, 114, 107, 32, 127769>>                     \* "Dark " moon
TagNeutral == <<78, 101, 117, 116, 114, 97, 108, 32, 9729, 65039>>
                                                                \* "Neutral " cloud
TagWarm == <<87, 97, 114, 109, 32, 128308>>                     \* "Warm " red circle
TagCool == <<67, 111, 111, 108, 32, 128309>>                    \* "Cool " blue circle
TagBalanced == <<66, 97, 108, 97, 110, 99, 101, 100, 32, 127912>>
                                                                \* "Balanced " palette

RECURSIVE JoinTags(_)
\* " | ".join(tags)
JoinTags(ts) ==
    IF Len(ts) = 0 THEN <<>>
    ELSE IF Len(ts) = 1 THEN ts[1]
    ELSE ts[1] \o Separator \o JoinTags(Tail(ts))

\* analyze_image with >= for > in the resolution bucket
analyze_image_ge(i) ==
    LET resolution == IF i.w * i.h >= HdPixels THEN TagHD ELSE TagSD
        brightness == IF i.lum10 > BrightAbove * 10 THEN TagBright
                      ELSE IF i.lum10 < DarkBelow * 10 THEN TagDark
                      ELSE TagNeutral
        tone == IF i.r > i.g /\ i.r > i.b THEN TagWarm
                ELSE IF i.b > i.r /\ i.b > i.g THEN TagCool
                ELSE TagBalanced
    IN JoinTags(<<resolution, brightness, tone>>)

analyze_image(i) ==
    LET resolution == IF i.w * i.h > HdPixels THEN TagHD ELSE TagSD
        brightness == IF i.lum10 > BrightAbove * 10 THEN TagBright
                      ELSE IF i.lum10 < DarkBelow * 10 THEN TagDark
                      ELSE TagNeutral
        tone == IF i.r > i.g /\ i.r > i.b THEN TagWarm
                ELSE IF i.b > i.r /\ i.b > i.g THEN TagCool
                ELSE TagBalanced
    IN JoinTags(<<resolution, brightness, tone>>)

NoImage == [w |-> 0, h |-> 0, lum10 |-> 0, r |-> 0, g |-> 0, b |-> 0]

Sizes == {<<1, 1>>, <<1000, 1000>>, <<1000, 1001>>, <<1920, 1080>>}
Lums == {0, 799, 800, 801, 1499, 1500, 1501, 1505, 2550}
Channels == {0, 128, 255}

ImageSpace ==
    {[w |-> s[1], h |-> s[2], lum10 |-> m, r |-> r, g |-> g, b |-> b] :
        s \in Sizes, m \in Lums, r \in Channels, g \in Channels, b \in Channels}

\* one call of analyze_image on the image at hand (tags is empty before)
Analyze ==
    /\ tags = <<>>
    /\ tags' = analyze_image(img)
    /\ UNCHANGED <<users, photos, blobs, likes, saves, comments, last, repeat,
                   req, img>>

(* ---------------------------------------------------------------------- *)
(* Registration (app.py 245-256)                                           *)
(* ---------------------------------------------------------------------- *)
Usernames == {"ann", "bob"}

\* the "role" field of the registration form; NoRole is a form without it
NoRole == "<absent>"
RoleFields == {NoRole, "creator", "consumer"}

\* request.form.get("role", "consumer")
RoleOf(field) == IF field = NoRole THEN "consumer" ELSE field

\* the unique constraint on User.username: the INSERT of a second row with
\* the same username makes the commit raise
UsernameTaken(name) == \E i \in 1..Len(users) : users[i].username = name

\* a GET renders the form; a POST adds the User row and commits
register(method, name, field, db_ok) ==
    LET user == [username |-> name, role |-> RoleOf(field)]
        ok == method = "POST" /\ db_ok /\ ~UsernameTaken(name)
    IN /\ Len(users) < MaxUsers
       /\ users' = Commit(ok, users, Append(users, user))
       /\ last' = [op |-> "register", done |-> ok]
       /\ repeat' = FALSE
       /\ UNCHANGED <<photos, blobs, likes, saves, comments, req, img, tags>>

Register ==
    \E method \in {"GET", "POST"}, name \in Usernames, field \in RoleFields,
       db_ok \in BOOLEAN :
        register(method, name, field, db_ok)

(* ---------------------------------------------------------------------- *)
(* Upload pipeline (app.py 150-202)                                        *)
(* ---------------------------------------------------------------------- *)
\* the images a client uploads: a large bright warm one, a small dark cool one
Images ==
    <<[w |-> 1920, h |-> 1080, lum10 |-> 1600, r |-> 200, g |-> 120, b |-> 90],
      [w |-> 640, h |-> 480, lum10 |-> 600, r |-> 30, g |-> 40, b |-> 90]>>

\* request.files.get("photo"): no such part (present = FALSE), a part with an
\* empty filename (an empty file input), or a named file whose bytes decode
\* to Images[image], or to nothing when image = 0
NoFile == [present |-> FALSE, filename |-> "", image |-> 0]
Files ==
    {NoFile,
     [present |-> TRUE, filename |-> "", image |-> 1],
     [present |-> TRUE, filename |-> "a.jpg", image |-> 1],
     [present |-> TRUE, filename |-> "my pic.jpg", image |-> 2],
     [present |-> TRUE, filename |-> "a.jpg", image |-> 0]}

\* request.form.get("title"): NoTitle is a form without the field
NoTitle == "<absent>"
Titles == {NoTitle, "", "sunset"}

\* the second datetime.utcnow() falls in
Times == {1}


\* "not file": a FileStorage is true iff its filename is non-empty
FileGiven(file) == file.present /\ file.filename # ""

\* "not title"
TitleGiven(title) == title # NoTitle /\ title # ""

\* IsCreator with the role check dropped: any logged-in user passes
IsLoggedIn(u) == u \in UserIds

\* current_user.role != "creator"
IsCreator(u) == users[u].role = "creator"

\* werkzeug's secure_filename on the filenames above: whitespace becomes "_"
SecureFilename(f) == IF f = "my pic.jpg" THEN "my_pic.jpg" ELSE f

\* f"{datetime.utcnow().strftime('%Y%m%d%H%M%S')}_{filename}"
StorageName(ts, file) == <<ts, SecureFilename(file.filename)>>

\* How far the handler gets up to the write to the sink (app.py 150-185).
\* Image.open raises on bytes that are no image; img.thumbnail and the JPEG
\* encoding change the bytes stored, not which names are stored, and are
\* left out.  The blob sink and the local upload folder (app.py 175-185)
\* both store the bytes under the name, overwriting; sink_ok tells whether
\* that write succeeds.
UploadOutcome(u, method, file, title, sink_ok) ==
    IF ~IsCreator(u) THEN "forbidden"
    ELSE IF method = "GET" THEN "form"
    ELSE IF ~FileGiven(file) \/ ~TitleGiven(title) THEN "missing"
    ELSE IF file.image = 0 THEN "decode_error"
    ELSE IF ~sink_ok THEN "sink_error"
    ELSE "stored"

\* How the handler ends once the blob is stored (app.py 187-199):
\* db.session.commit() either makes the Photo row durable or raises
CommitOutcome(db_ok) == IF db_ok THEN "uploaded" ELSE "commit_error"

\* blob.upload_blob(mem, overwrite=True) / img.save(path): the sink holds the
\* bytes last written under each name
WriteBlob(sink, name, image) == (name :> image) @@ sink

\* Photo(filename=file_url, title=..., auto_tags=tags, user_id=...); caption,
\* location and people_present are optional text copied from the form
PhotoRow(u, file, title, ts) ==
    [user_id |-> u, title |-> title, filename |-> StorageName(ts, file),
     auto_tags |-> analyze_image(Images[file.image])]

\* BlobsAfter of a handler that leaves the write to the sink for after the
\* request has been answered
BlobsWrittenLater(outcome, file, ts) == blobs

\* the sink after the first part of the handler, given how far it got
BlobsAfter(outcome, file, ts) ==
    IF outcome = "stored"
    THEN WriteBlob(blobs, StorageName(ts, file), file.image)
    ELSE blobs

\* the Photo table after the commit, given how it ended
PhotosAfter(outcome, u, file, title, ts) ==
    IF outcome = "uploaded"
    THEN Append(photos, PhotoRow(u, file, title, ts))
    ELSE photos

\* what is known of an upload request after a step of it: the user, whether
\* the form had the file and the title, and how far the request got
UploadRecord(u, file, title, outcome) ==
    [op |-> "upload", user |-> u, file |-> FileGiven(file),
     title |-> TitleGiven(title), outcome |-> outcome]

\* a worker whose request has ended
Ended(op) == [Idle EXCEPT !.pc = "done", !.op = op]

\* app.py 150-185: the request reaches the handler, which checks the role,
\* the method and the form, decodes the image and writes it to the sink;
\* a request that got that far goes on to the commit
creator_dashboard(w, u, method, file, title, ts, sink_ok) ==
    LET outcome == UploadOutcome(u, method, file, title, sink_ok)
    IN /\ req[w].pc = "idle"
       /\ outcome = "stored" => Len(photos) < MaxPhotos
       /\ blobs' = BlobsAfter(outcome, file, ts)
       /\ req' = [req EXCEPT ![w] =
                     IF outcome = "stored"
                     THEN [pc |-> "commit", op |-> "upload", user |-> u,
                           file |-> file, title |-> title, ts |-> ts]
                     ELSE Ended("upload")]
       /\ last' = UploadRecord(u, file, title, outcome)
       /\ repeat' = FALSE
       /\ UNCHANGED <<users, photos, likes, saves, comments, img, tags>>

\* app.py 187-199: db.session.add(Photo(...)), db.session.commit() and the
\* response; a commit that raises ends the request without one
creator_dashboard_commit(w, db_ok) ==
    LET r == req[w]
        outcome == CommitOutcome(db_ok)
    IN /\ r.pc = "commit"
       /\ outcome = "uploaded" => Len(photos) < MaxPhotos
       /\ photos' = PhotosAfter(outcome, r.user, r.file, r.title, r.ts)
       /\ req' = [req EXCEPT ![w] = Ended("upload")]
       /\ last' = UploadRecord(r.user, r.file, r.title, outcome)
       /\ repeat' = FALSE
       /\ UNCHANGED <<users, blobs, likes, saves, comments, img, tags>>

Upload ==
    \E w \in Workers, u \in UserIds, method \in {"GET", "POST"},
       file \in Files, title \in Titles, ts \in Times, sink_ok \in BOOLEAN :
        creator_dashboard(w, u, method, file, title, ts, sink_ok)
UploadCommit ==
    \E w \in Workers, db_ok \in BOOLEAN : creator_dashboard_commit(w, db_ok)

(* ---------------------------------------------------------------------- *)
(* Comment moderation (app.py 230-243)                                     *)
(* ---------------------------------------------------------------------- *)
\* A text is represented by whether the form has the field, its length and
\* the polarity the sentiment estimator gives it, in thousandths
\* (TextBlob's polarity is a real number in [-1, 1]).
NegativeThreshold == -300

NoText == [given |-> FALSE, len |-> 0, polarity |-> 0]
EmptyText == [given |-> TRUE, len |-> 0, polarity |-> 0]
Polarities == {-310, -301, -300, 500}
Texts ==
    {NoText, EmptyText} \cup
    {[given |-> TRUE, len |-> 5, polarity |-> x] : x \in Polarities}

\* TextGiven that tests only "text is None"
TextPresent(text) == text.given

\* "not text"
TextGiven(text) == text.given /\ text.len > 0

\* TextBlob(text).sentiment.polarity
Polarity(text) == text.polarity

\* Blocked with <= for <
BlockedInclusive(polarity) == polarity <= NegativeThreshold

\* polarity < -0.3
Blocked(polarity) == polarity < NegativeThreshold

\* the JSON response, and whether the estimator ran (scored)
CommentReply(text, db_ok) ==
    IF ~TextGiven(text)
    THEN [success |-> FALSE, message |-> "", scored |-> FALSE, done |-> TRUE]
    ELSE IF Blocked(Polarity(text))
    THEN [success |-> FALSE, message |-> "Negative blocked", scored |-> TRUE,
          done |-> TRUE]
    ELSE [success |-> db_ok, message |-> "", scored |-> TRUE, done |-> db_ok]

\* Comment(text=text, user_id=current_user.id, photo_id=photo_id)
CommentRow(u, p, text) == [text |-> text, user_id |-> u, photo_id |-> p]

comment(u, p, text, db_ok) ==
    LET reply == CommentReply(text, db_ok)
    IN /\ reply.success => Len(comments) < MaxComments
       /\ comments' = IF reply.success
                      THEN Append(comments, CommentRow(u, p, text))
                      ELSE comments
       /\ last' = [op |-> "comment", user |-> u, photo_id |-> p,
                   text |-> text, reply |-> reply]
       /\ repeat' = FALSE
       /\ UNCHANGED <<users, photos, blobs, likes, saves, req, img, tags>>

Comment ==
    \E u \in UserIds, p \in PhotoIds, text \in Texts, db_ok \in BOOLEAN :
        comment(u, p, text, db_ok)

(* ---------------------------------------------------------------------- *)
(* Specifications                                                          *)
(* ---------------------------------------------------------------------- *)
\* the application after start-up on a fresh database (db.create_all())
Init ==
    /\ users = <<>>
    /\ photos = <<>>
    /\ blobs = <<>>
    /\ likes = {}
    /\ saves = {}
    /\ comments = <<>>
    /\ last = NoRequest
    /\ repeat = FALSE
    /\ req = [w \in Workers |-> Idle]
    /\ img = NoImage
    /\ tags = <<>>

Next ==
    \/ Register \/ Upload \/ UploadCommit \/ Comment
    \/ Begin \/ Lookup \/ Write \/ Release

Spec == Init /\ [][Next]_vars

\* registration and upload requests, served by two workers, from the fresh
\* database
NextUpload == Register \/ Upload \/ UploadCommit \/ Release

SpecUpload == Init /\ [][NextUpload]_vars

\* The store after ann registered as creator, bob registered without a role
\* and ann uploaded a.jpg: the state the social requests start from.
AnnsFile == [present |-> TRUE, filename |-> "a.jpg", image |-> 1]

InitRegistered ==
    /\ users = <<[username |-> "ann", role |-> "creator"],
                 [username |-> "bob", role |-> "consumer"]>>
    /\ photos = <<PhotoRow(1, AnnsFile, "sunset", 1)>>
    /\ blobs = (StorageName(1, AnnsFile) :> 1)
    /\ likes = {}
    /\ saves = {}
    /\ comments = <<>>
    /\ last = NoRequest
    /\ repeat = FALSE
    /\ req = [w \in Workers |-> Idle]
    /\ img = NoImage
    /\ tags = <<>>

\* like and save requests, each run to completion before the next starts
NextToggle == BeginAlone \/ Lookup \/ Write \/ Release

SpecToggle == InitRegistered /\ [][NextToggle]_vars

\* comment requests
NextComment == Comment

SpecComment == InitRegistered /\ [][NextComment]_vars

\* The tables two concurrent requests may find: empty, one row for ann and
\* photo 1, or the two rows for that pair that two racing inserts leave
\* (the state of C3_Witness).
RaceStarts ==
    {{},
     {[id |-> 1, user_id |-> 1, photo_id |-> 1]},
     {[id |-> 1, user_id |-> 1, photo_id |-> 1],
      [id |-> 2, user_id |-> 1, photo_id |-> 1]}}

InitRace ==
    /\ users = <<[username |-> "ann", role |-> "creator"],
                 [username |-> "bob", role |-> "consumer"]>>
    /\ photos = <<PhotoRow(1, AnnsFile, "sunset", 1)>>
    /\ blobs = (StorageName(1, AnnsFile) :> 1)
    /\ likes \in RaceStarts
    /\ saves \in RaceStarts
    /\ comments = <<>>
    /\ last = NoRequest
    /\ repeat = FALSE
    /\ req = [w \in Workers |-> Idle]
    /\ img = NoImage
    /\ tags = <<>>

\* two workers, one toggle request each (no worker is released), statements
\* interleaved
NextRace == Begin \/ Lookup \/ Write

SpecRace == InitRace /\ [][NextRace]_vars

\* like and save requests, each run to completion before the next, on the
\* tables earlier requests have left, racing ones included (InitRace)
SpecStored == InitRace /\ [][NextToggle]_vars

\* like requests by any user and save requests by the first user for the
\* photo in the store, served by two workers that take request after
\* request, statements interleaved
BeginOverlap ==
    \E w \in Workers :
        \/ \E u \in UserIds : begin(w, "like", u, 1)
        \/ \E u \in FirstUser : begin(w, "save", u, 1)

NextOverlap == BeginOverlap \/ Lookup \/ Write \/ Release

SpecOverlap == InitRegistered /\ [][NextOverlap]_vars

\* The five handlers that write, served by two workers from the fresh
\* database, the steps of the two requests in flight interleaved.  The
\* requests are those that decide whether a handler writes: any
\* registration; an upload of a.jpg with a title by any user, the sink or the
\* commit failing or not; a like, a save and a comment on photo 1 by the
\* first registered user, the commit failing or not, the comment's text
\* empty, blocked or admitted.  Worker 1 serves the uploads and worker 2 the
\* toggles, so that an upload and a toggle are in flight together (two
\* toggles are in SpecRace, two uploads in SpecUpload).
WrittenTexts ==
    {EmptyText} \cup
    {[given |-> TRUE, len |-> 5, polarity |-> x] : x \in {-310, 500}}

UploadWrites ==
    \E w \in {1}, u \in UserIds, sink_ok \in BOOLEAN :
        creator_dashboard(w, u, "POST", AnnsFile, "sunset", 1, sink_ok)
BeginWrites ==
    \E w \in {2}, op \in {"like", "save"}, u \in FirstUser :
        begin(w, op, u, 1)
CommentWrites ==
    \E u \in FirstUser, text \in WrittenTexts, db_ok \in BOOLEAN :
        comment(u, 1, text, db_ok)

NextWrites ==
    \/ Register \/ UploadWrites \/ UploadCommit \/ CommentWrites
    \/ BeginWrites \/ Lookup \/ Write \/ Release

SpecWrites == Init /\ [][NextWrites]_vars

\* analyze_image on each image of ImageSpace
InitTags ==
    /\ users = <<>>
    /\ photos = <<>>
    /\ blobs = <<>>
    /\ likes = {}
    /\ saves = {}
    /\ comments = <<>>
    /\ last = NoRequest
    /\ repeat = FALSE
    /\ req = [w \in Workers |-> Idle]
    /\ img \in ImageSpace
    /\ tags = <<>>

NextTags == Analyze

SpecTags == InitTags /\ [][NextTags]_vars

(* ---------------------------------------------------------------------- *)
(* Properties of the toggles (SpecToggle, SpecStored, SpecOverlap)         *)
(* ---------------------------------------------------------------------- *)
\* C1: after any sequence of like and save requests, each run to completion
\* before the next, every (user_id, photo_id) pair has 0 or 1 Like rows and 0
\* or 1 Save rows.
C1_AtMostOneRow ==
    /\ \A r \in likes : Count(likes, r.user_id, r.photo_id) = 1
    /\ \A r \in saves : Count(saves, r.user_id, r.photo_id) = 1
    /\ \A u \in UserIds, p \in PhotoIds :
          Count(likes, u, p) \in {0, 1} /\ Count(saves, u, p) \in {0, 1}

\* a pair toggled at least three times in a row holds its one row again
C1_Witness ==
    /\ repeat
    /\ last.op = "like"
    /\ last.before = 0
    /\ Count(likes, last.user, last.photo_id) = 1
    /\ saves # {}

\* a toggle request is answered in this step
Answered == \E w \in Workers : req[w].pc = "write" /\ req'[w].pc = "done"

\* C2 as claimed, for every store state: when a toggle request follows a
\* toggle request of the same kind by the same user on the same photo, both
\* answered, the pair has as many rows as before the first of the two, the
\* two responses are opposite, and the second reports the state the pair had
\* before the first.
C2_DoubleToggle ==
    [][(Answered /\ SameRequest(last, last')) =>
          /\ Count(IF last.op = "like" THEN likes' ELSE saves',
                   last.user, last.photo_id) = last.before
          /\ last'.active # last.active
          /\ last'.active = (last.before > 0)]_vars

\* C2 (amended): the same holds when the pair had at most one row before
\* the first of the two requests; when it had two rows or more, each of the
\* two requests deletes one row and reports false, so the pair is left with
\* two rows fewer and the responses are equal.
C2_DoubleToggleOfOneRow ==
    [][(Answered /\ SameRequest(last, last')) =>
          LET n == Count(IF last.op = "like" THEN likes' ELSE saves',
                         last.user, last.photo_id)
          IN /\ last.before <= 1 =>
                   /\ n = last.before
                   /\ last'.active # last.active
                   /\ last'.active = (last.before > 0)
             /\ last.before >= 2 =>
                   /\ n = last.before - 2
                   /\ ~last.active /\ ~last'.active]_vars

\* two like-toggles in a row on a pair that had two rows have both reported
\* false and left the pair without rows
C2_Witness ==
    /\ repeat
    /\ last.op = "like"
    /\ last.earlier = 2
    /\ last.before = 1
    /\ ~last.active
    /\ Count(likes, last.user, last.photo_id) = 0

\* the second of two like-toggles in a row has removed the one row the first
\* one added
C2_WitnessOneRow ==
    /\ repeat
    /\ last.op = "like"
    /\ last.earlier = 0
    /\ ~last.active
    /\ Count(likes, last.user, last.photo_id) = 0

\* the rows of a table that belong to other pairs than (u, p)
OtherRows(rows, u, p) == rows \ Matching(rows, u, p)

Writes(w) == req[w].pc = "write" /\ req'[w].pc \in {"done", "failed"}

\* the row worker w looked up is no longer in the table
StaleRow(w) == req[w].obj # NoRow /\ req[w].obj \notin Table(req[w].op)

C8_WitnessCombinations ==
    /\ Count(likes, 1, 1) = 1 /\ Count(saves, 1, 1) = 1
    /\ Count(likes, 1, 2) = 1 /\ Count(saves, 1, 2) = 0
    /\ Count(likes, 2, 1) = 0 /\ Count(saves, 2, 1) = 1
    /\ Count(likes, 2, 2) = 0 /\ Count(saves, 2, 2) = 0
    /\ last.op = "save"

\* C9: every Like, Save and Comment row belongs to an existing User and an
\* existing Photo.
C9_RowsReferToPhotos ==
    /\ \A r \in likes \cup saves :
          r.user_id \in 1..Len(users) /\ r.photo_id \in 1..Len(photos)
    /\ \A i \in 1..Len(comments) :
          /\ comments[i].user_id \in 1..Len(users)
          /\ comments[i].photo_id \in 1..Len(photos)

(* ---------------------------------------------------------------------- *)
(* The toggle race (SpecRace)                                              *)
(* ---------------------------------------------------------------------- *)
\* both workers have answered a request of the same kind by the same user
\* on the same photo
SamePairDone ==
    /\ req[1].pc = "done" /\ req[2].pc = "done"
    /\ req[1].op = req[2].op
    /\ req[1].user = req[2].user
    /\ req[1].photo_id = req[2].photo_id

\* one toggle after the other on a pair without rows: the pair's rows, and
\* the two responses
SerialRows(u, p) ==
    LET first == ToggleWrite({}, u, p, FindRow({}, u, p))
    IN ToggleWrite(first, u, p, FindRow(first, u, p))

SerialReplies(u, p) ==
    LET first == ToggleWrite({}, u, p, FindRow({}, u, p))
    IN {ToggleReply(FindRow({}, u, p)), ToggleReply(FindRow(first, u, p))}

\* C3: when two requests for the same pair have both looked up and found no
\* row, both have inserted: the pair has two rows and both responses report
\* true, which the serial execution of the two toggles on a pair without
\* rows does not produce (it leaves no row and answers true, then false);
\* when one of them found no row and the other found one, the responses are
\* opposite and the pair has at most one row, as in a serial execution.
C3_Race ==
    SamePairDone =>
        LET a == req[1]
            b == req[2]
            n == Count(Table(a.op), a.user, a.photo_id)
        IN /\ (a.obj = NoRow /\ b.obj = NoRow) =>
                 /\ n = 2
                 /\ a.active /\ b.active
                 /\ n # Cardinality(SerialRows(a.user, a.photo_id))
                 /\ {a.active, b.active} # SerialReplies(a.user, a.photo_id)
           /\ ((a.obj = NoRow) # (b.obj = NoRow)) =>
                 /\ n <= 1
                 /\ a.active # b.active

\* two like requests for one pair, both of which saw no row
C3_Witness ==
    /\ SamePairDone
    /\ req[1].op = "like"
    /\ req[1].obj = NoRow /\ req[2].obj = NoRow
    /\ Count(likes, req[1].user, req[1].photo_id) = 2

(* ---------------------------------------------------------------------- *)
(* Properties of the handlers that write (SpecWrites, SpecUpload)          *)
(* ---------------------------------------------------------------------- *)
\* C4 as claimed: a stored blob exists only if a Photo row references it.
C4_NoOrphanBlob ==
    \A n \in DOMAIN blobs : \E i \in 1..Len(photos) : photos[i].filename = n

PhotoHasBlob ==
    \A i \in 1..Len(photos) : photos[i].filename \in DOMAIN blobs

\* one row more in a table, every other part of the store as it was
OneRowMore(before, after, rest) ==
    /\ Len(after) = Len(before) + 1
    /\ SubSeq(after, 1, Len(before)) = before
    /\ rest

\* one row of the pair more, or one row less, in a toggle's table, every
\* other part of the store as it was
OneRowToggled(before, after, u, p, rest) ==
    /\ \/ \E r \in after \ before :
             /\ after = before \cup {r}
             /\ r.user_id = u /\ r.photo_id = p
       \/ \E r \in before : after = before \ {r}
    /\ rest

\* what a step does to the store, by the request it belongs to
AllOrNothing ==
    /\ last'.op = "register" =>
          \/ store' = store
          \/ /\ last'.done
             /\ OneRowMore(users, users',
                           UNCHANGED <<photos, blobs, likes, saves, comments>>)
    /\ last'.op = "like" =>
          \/ store' = store
          \/ /\ last'.done
             /\ OneRowToggled(likes, likes', last'.user, last'.photo_id,
                              UNCHANGED <<users, photos, blobs, saves, comments>>)
    /\ last'.op = "save" =>
          \/ store' = store
          \/ /\ last'.done
             /\ OneRowToggled(saves, saves', last'.user, last'.photo_id,
                              UNCHANGED <<users, photos, blobs, likes, comments>>)
    /\ last'.op = "comment" =>
          \/ store' = store
          \/ /\ last'.reply.success
             /\ OneRowMore(comments, comments',
                           UNCHANGED <<users, photos, blobs, likes, saves>>)
    /\ last'.op = "upload" =>
          \/ store' = store
          \/ /\ last'.outcome = "stored"
             /\ DOMAIN blobs \subseteq DOMAIN blobs'
             /\ UNCHANGED <<users, photos, likes, saves, comments>>
          \/ /\ last'.outcome = "uploaded"
             /\ OneRowMore(photos, photos',
                           UNCHANGED <<users, blobs, likes, saves, comments>>)
             /\ photos'[Len(photos')].filename \in DOMAIN blobs'

\* an upload that has reached its commit has its blob stored
BlobBeforeRow ==
    \A w \in Workers :
        req[w].pc = "commit" =>
            StorageName(req[w].ts, req[w].file) \in DOMAIN blobs

\* C4 (amended): a step of a register, like, save or comment request either
\* makes the request's one write (a row added, or for a toggle a row of its
\* table added or deleted) and answers it, or leaves the store as it was; an
\* upload first stores the blob and then commits the Photo row: each of its
\* steps leaves the store as it was, or stores the blob alone, or adds the
\* Photo row of a stored blob, and a commit that fails leaves the blob
\* stored without a row; a Photo row exists only if the blob it references
\* is stored.
C4_WritesExceptOrphanBlob ==
    /\ []PhotoHasBlob
    /\ []BlobBeforeRow
    /\ [][AllOrNothing]_vars

\* an upload whose commit failed has left a blob no Photo row references,
\* in a store that holds a Like, a Save and a Comment row
C4_Witness ==
    /\ last.op = "upload"
    /\ last.outcome = "commit_error"
    /\ photos = <<>>
    /\ ~C4_NoOrphanBlob
    /\ likes # {} /\ saves # {} /\ comments # <<>>

\* C5: an upload request by a user who is no creator, or without the file,
\* or without the title, leaves the Photo rows and the stored blobs as they
\* were; every Photo row is owned by a user whose role is "creator".
C5_UploadGuards ==
    /\ [](\A i \in 1..Len(photos) :
             /\ photos[i].user_id \in 1..Len(users)
             /\ users[photos[i].user_id].role = "creator")
    /\ [][(/\ last'.op = "upload"
           /\ \/ users[last'.user].role # "creator"
              \/ ~last'.file
              \/ ~last'.title)
          => photos' = photos /\ blobs' = blobs]_vars

\* a user who is no creator has posted a file and a title after a creator's
\* upload
C5_Witness ==
    /\ last.op = "upload"
    /\ users[last.user].role # "creator"
    /\ last.file /\ last.title
    /\ Len(photos) > 0

(* ---------------------------------------------------------------------- *)
(* Properties of comment moderation (SpecComment)                          *)
(* ---------------------------------------------------------------------- *)
\* C6: every stored Comment row has non-empty text of polarity not below
\* -0.3; a request of polarity below -0.3 adds no row; an answered request
\* of polarity exactly -0.3 adds exactly one row, its own.
C6_AdmittedOnly ==
    /\ [](\A i \in 1..Len(comments) :
             /\ comments[i].text.given
             /\ comments[i].text.len > 0
             /\ comments[i].text.polarity >= -300)
    /\ [][last'.op = "comment" =>
             /\ last'.text.polarity < -300 => comments' = comments
             /\ (/\ last'.text.given /\ last'.text.len > 0
                 /\ last'.text.polarity = -300
                 /\ last'.reply.done)
                => comments' = Append(comments,
                                      [text |-> last'.text,
                                       user_id |-> last'.user,
                                       photo_id |-> last'.photo_id])]_vars

\* a comment of polarity exactly -0.3 has just been stored
C6_Witness ==
    /\ last.op = "comment"
    /\ last.text.polarity = -300
    /\ last.reply.success
    /\ Len(comments) > 0
    /\ comments[Len(comments)].text.polarity = -300

\* C7: a comment request with empty or missing text is answered
\* success=false without message before the estimator runs; one of polarity
\* below -0.3 is answered success=false with message "Negative blocked";
\* both leave every table as it was.
C7_Rejections ==
    [][last'.op = "comment" =>
          /\ (~last'.text.given \/ last'.text.len = 0) =>
                /\ ~last'.reply.scored
                /\ ~last'.reply.success
                /\ last'.reply.message # "Negative blocked"
                /\ store' = store
          /\ (last'.text.given /\ last'.text.len > 0
              /\ last'.text.polarity < -300) =>
                /\ ~last'.reply.success
                /\ last'.reply.message = "Negative blocked"
                /\ store' = store]_vars

\* an empty text has been rejected while a comment is stored
C7_Witness ==
    /\ last.op = "comment"
    /\ last.text.given /\ last.text.len = 0
    /\ ~last.reply.success
    /\ Len(comments) > 0

(* ---------------------------------------------------------------------- *)
(* Properties of the Image Characterizer (SpecTags)                        *)
(* ---------------------------------------------------------------------- *)
\* C10: analyze_image returns resolution, brightness and tone tags joined by
\* " | " in that order; HD iff width*height > 1,000,000; Bright iff the mean
\* luminance is above 150, Dark iff it is below 80; Warm iff r exceeds g and
\* b, Cool iff b exceeds r and g.
C10_Tags ==
    tags # <<>> =>
        \E res \in {TagHD, TagSD}, bri \in {TagBright, TagDark, TagNeutral},
           tone \in {TagWarm, TagCool, TagBalanced} :
            /\ tags = res \o Separator \o bri \o Separator \o tone
            /\ res = TagHD <=> img.w * img.h > 1000000
            /\ bri = TagBright <=> img.lum10 > 1500
            /\ bri = TagDark <=> img.lum10 < 800
            /\ tone = TagWarm <=> (img.r > img.g /\ img.r > img.b)
            /\ tone = TagCool <=> (img.b > img.r /\ img.b > img.g)

\* an image on every boundary has been analyzed: exactly 1,000,000 pixels,
\* mean luminance exactly 150, r = b > g
C10_Witness ==
    /\ tags = TagSD \o Separator \o TagNeutral \o Separator \o TagBalanced
    /\ img.w * img.h = 1000000
    /\ img.lum10 = 1500
    /\ img.r = img.b /\ img.r > img.g

====
